---- MODULE Spec2Model ----
(***************************************************************************)
(* Credential lifecycle and catalog synchronisation of the storefront      *)
(* integration service (src/main.py, src/db.py).                           *)
(*                                                                         *)
(* State: the two persisted tables (shop_tokens in PostgreSQL, products in *)
(* SQLite), the in-flight /callback, /api/refresh-products and             *)
(* /random-products handler invocations, the sync passes                   *)
(* (background_fetch_products and ingest_products coroutines) and the      *)
(* remote platform's catalog.                                              *)
(* Every await / storage statement of the code is one step.                *)
(***************************************************************************)
EXTENDS Integers, Sequences, FiniteSets, TLC

VARIABLES
    shop_tokens,   \* rows of table shop_tokens, in insertion order (db.py:29-36)
    products,      \* rows of table products, a set keyed (shop, product_id) (db.py:127-142)
    products_table,\* whether table products exists: CREATE TABLE IF NOT EXISTS has run
    remote,        \* the remote platform's catalog pages, by cursor
    cbs,           \* invocations of the /callback handler (main.py:203-245)
    refreshes,     \* invocations of /api/refresh-products (main.py:248-270)
    randoms,       \* invocations of /random-products (main.py:347-395)
    passes,        \* sync passes: background_fetch_products / ingest_products
    putLog         \* history: per shop, what store_access_token calls did

vars == <<shop_tokens, products, products_table, remote, cbs, refreshes, randoms, passes, putLog>>

(***************************************************************************)
(* Bounds of the model.                                                    *)
(***************************************************************************)
MaxTriggers == 2       \* inbound requests (callbacks, refreshes) per run
MaxPageRequests == 4   \* page requests one pass may issue before the model stops it

(***************************************************************************)
(* Python values.  None is a value outside every input alphabet below.     *)
(***************************************************************************)
None == "None"
Truthy(v) == v # None /\ v # ""          \* `if v:` / `not v` on str | None

Get(d, k, default) == IF k \in DOMAIN d THEN d[k] ELSE default   \* dict.get

Digits == <<"0", "1", "2", "3", "4", "5", "6", "7", "8", "9">>

RECURSIVE str(_)
str(n) == IF n < 10 THEN Digits[n + 1]
          ELSE str(n \div 10) \o Digits[(n % 10) + 1]    \* str(int), db.py:156

\* json.dumps / json.loads of a JSON value: the column holds text, not the
\* list; loads(dumps(v)) = v for the lists and None the code stores.
json_dumps(v) == <<"json", v>>
json_loads(t) == t[2]

RECURSIVE Concat(_)
Concat(toks) == IF toks = <<>> THEN "" ELSE Head(toks) \o Concat(Tail(toks))

\* str.split(sep) on a text held as a sequence of tokens.
RECURSIVE split(_, _)
split(s, sep) ==
    IF \E i \in 1..Len(s) : s[i] = sep
    THEN LET i == CHOOSE i \in 1..Len(s) :
                      s[i] = sep /\ \A j \in 1..(i - 1) : s[j] # sep
         IN  <<SubSeq(s, 1, i - 1)>> \o split(SubSeq(s, i + 1, Len(s)), sep)
    ELSE <<s>>

Contains(s, tok) == \E i \in 1..Len(s) : s[i] = tok     \* `tok in s`

(***************************************************************************)
(* Inputs.                                                                 *)
(***************************************************************************)
Shops == {"a.myshopify.com", "b.myshopify.com"}
Tokens == {"shpat_1", "shpat_2"}
Code == "code"

HTTP_OK == 200
ErrorStatuses == {401, 500}
ErrorText(status) == IF status = 401 THEN "Unauthorized" ELSE "Internal Server Error"

\* Raw product records as the remote returns them (untyped dicts).
PA1 == [id |-> 1, title |-> "Shirt", handle |-> "shirt", created_at |-> "d1",
        updated_at |-> "d1", published_at |-> "d1", status |-> "active",
        variants |-> <<[id |-> 11, price |-> "10.00"]>>,
        images |-> <<[src |-> "shirt.png"]>>,
        options |-> <<[name |-> "Size"]>>, tags |-> "summer"]
\* the same product id as PA1, every other field different or missing
PA2 == [id |-> 1, title |-> "Shirt v2", handle |-> "shirt-2", created_at |-> "d2",
        updated_at |-> "d3", status |-> "draft",
        variants |-> <<[id |-> 12, price |-> "12.00"]>>,
        options |-> <<[name |-> "Colour"]>>]
PB  == [id |-> 2, title |-> "Mug", handle |-> "mug", created_at |-> "d1",
        updated_at |-> "d2", published_at |-> "d2", status |-> "active",
        variants |-> <<[id |-> 21, price |-> "5.00"]>>, images |-> <<>>,
        options |-> <<[name |-> "Title"]>>, tags |-> ""]
PC  == [id |-> 30, title |-> "Cap"]

(***************************************************************************)
(* The remote platform: catalog pages and their Link headers.  A header is *)
(* its text cut into tokens; a link is <URL>; rel="...".                   *)
(***************************************************************************)
RelNext == "rel=\"next\""
RelPrevious == "rel=\"previous\""
PageInfoKey == "page_info="
BaseUrl == "https://shop/admin/api/2024-01/products.json?limit=250&"

Link(cursor, rel) == <<"<", BaseUrl, PageInfoKey, cursor, ">", "; ", rel>>
NextLink(cursor) == Link(cursor, RelNext)
PrevLink(cursor) == Link(cursor, RelPrevious)

Page(ps, headers) ==
    [status_code |-> HTTP_OK, text |-> "", json |-> [products |-> ps],
     headers |-> headers]
NoLink == [ContentType |-> "application/json"]
WithLink(toks) == [ContentType |-> "application/json", Link |-> toks]

ErrorResponse(status) ==
    [status_code |-> status, text |-> ErrorText(status),
     json |-> [errors |-> ErrorText(status)], headers |-> NoLink]

\* one page, no Link header
RemoteSingle == [x \in {None} |-> Page(<<PA1, PB>>, NoLink)]

\* three pages, every Link header holds the next link alone
RemoteChain ==
    (None :> Page(<<PA1>>, WithLink(NextLink("c1")))) @@
    ("c1" :> Page(<<PA2, PB>>, WithLink(NextLink("c2")))) @@
    ("c2" :> Page(<<PC>>, NoLink))

\* three pages with the platform's headers: a middle page lists the previous
\* link before the next one, the last page lists the previous link alone
RemoteChainPrev ==
    (None :> Page(<<PA1>>, WithLink(NextLink("c1")))) @@
    ("c1" :> Page(<<PB>>, WithLink(PrevLink("p0") \o <<", ">> \o NextLink("c2")))) @@
    ("c2" :> Page(<<PC>>, WithLink(PrevLink("p1")))) @@
    ("p0" :> Page(<<PA1>>, WithLink(NextLink("c1")))) @@
    ("p1" :> Page(<<PB>>, WithLink(PrevLink("p0") \o <<", ">> \o NextLink("c2"))))

\* the second page's next link points back to its own cursor
RemoteCycle ==
    (None :> Page(<<PA1>>, WithLink(NextLink("c1")))) @@
    ("c1" :> Page(<<PB>>, WithLink(NextLink("c1"))))

\* an empty catalog
RemoteEmpty == [x \in {None} |-> Page(<<>>, NoLink)]

\* two pages; the second repeats the first page's product id
RemoteTwo ==
    (None :> Page(<<PA1, PB>>, WithLink(NextLink("c1")))) @@
    ("c1" :> Page(<<PA2>>, NoLink))

Remotes == {RemoteSingle, RemoteTwo, RemoteChain, RemoteChainPrev,
            RemoteCycle, RemoteEmpty}
SyncRemotes == {RemoteTwo, RemoteEmpty}

\* What the remote answers to a page request carrying `cursor` (None: no
\* page_info parameter): the catalog page, or any failure status.
RemoteAnswers(r, cursor) ==
    {IF cursor \in DOMAIN r THEN r[cursor] ELSE ErrorResponse(400)}
    \cup {ErrorResponse(s) : s \in ErrorStatuses}

(***************************************************************************)
(* Credential store (db.py:50-118).  A row is [shop, access_token]; the    *)
(* columns id and installed_at are written but read by no code path.       *)
(***************************************************************************)
HasShop(rows, shop) == \E i \in 1..Len(rows) : rows[i].shop = shop

\* a plain INSERT: no conflict target, a second row for the shop
upsert_token_append(rows, shop, token) ==
    Append(rows, [shop |-> shop, access_token |-> token])

\* ON CONFLICT (shop) DO NOTHING: the first token stored for a shop stays
upsert_token_keep(rows, shop, token) ==
    IF HasShop(rows, shop) THEN rows
    ELSE Append(rows, [shop |-> shop, access_token |-> token])

\* INSERT ... ON CONFLICT (shop) DO UPDATE SET access_token = EXCLUDED.access_token
upsert_token(rows, shop, token) ==
    IF HasShop(rows, shop)
    THEN [i \in 1..Len(rows) |->
            IF rows[i].shop = shop
            THEN [rows[i] EXCEPT !.access_token = token]
            ELSE rows[i]]
    ELSE Append(rows, [shop |-> shop, access_token |-> token])

\* SELECT access_token FROM shop_tokens WHERE shop = %s ; fetchone()
select_token(rows, shop) ==
    IF HasShop(rows, shop)
    THEN rows[CHOOSE i \in 1..Len(rows) :
                  rows[i].shop = shop /\ \A j \in 1..(i - 1) : rows[j].shop # shop]
             .access_token
    ELSE None

\* the SELECT without its WHERE clause: LIMIT 1 of the whole table
get_access_token_any_shop(rows, shop) ==
    IF rows = <<>> THEN None ELSE rows[1].access_token

\* db.py:95-109: the value a call returns when its statements succeed
get_access_token_for_shop(rows, shop) == select_token(rows, shop)

\* db.py:91-118: what a call does: it returns that value, or the exception
\* of a failed connect or SELECT is logged and raised again (db.py:111-113)
DatabaseError ==
    [type |-> "OperationalError",
     detail |-> "server closed the connection unexpectedly"]
\* access_token TEXT NOT NULL (db.py:33): what the upsert of a None token raises
NullToken ==
    [type |-> "IntegrityError",
     detail |-> "null value in column \"access_token\" violates not-null constraint"]
lookup_token(rows, shop) ==
    {[raised |-> FALSE, value |-> get_access_token_for_shop(rows, shop)],
     [raised |-> TRUE, value |-> DatabaseError]}

\* what the server answers when a handler lets an exception escape
ServerError == [status_code |-> 500, text |-> "Internal Server Error"]

(***************************************************************************)
(* Product store (db.py:121-172) and the normalisation done by the sync    *)
(* passes (main.py:128-141, 183-196).                                      *)
(***************************************************************************)
processed_product(shop, product) ==
    [shop |-> shop,
     product_id |-> Get(product, "id", None),
     title |-> Get(product, "title", None),
     handle |-> Get(product, "handle", None),
     created_at |-> Get(product, "created_at", None),
     updated_at |-> Get(product, "updated_at", None),
     published_at |-> Get(product, "published_at", None),
     status |-> Get(product, "status", None),
     variants |-> Get(product, "variants", <<>>),
     images |-> Get(product, "images", <<>>),
     options |-> Get(product, "options", <<>>),
     tags |-> Get(product, "tags", None)]

product_row(product_data) ==
    [shop |-> product_data.shop,
     product_id |-> str(product_data.product_id),
     title |-> product_data.title,
     handle |-> product_data.handle,
     created_at |-> product_data.created_at,
     updated_at |-> product_data.updated_at,
     published_at |-> product_data.published_at,
     status |-> product_data.status,
     variants |-> json_dumps(product_data.variants),
     images |-> json_dumps(product_data.images),
     options |-> json_dumps(product_data.options),
     tags |-> product_data.tags]

SameKey(r1, r2) == r1.shop = r2.shop /\ r1.product_id = r2.product_id

\* what sqlite3 raises while another connection holds the file
DatabaseLocked ==
    [type |-> "OperationalError", detail |-> "database is locked"]

\* INSERT OR IGNORE: a row already under the key is kept
store_product_ignore(rows, product_data) ==
    LET row == product_row(product_data)
    IN  IF \E r \in rows : SameKey(r, row) THEN rows ELSE rows \cup {row}

\* INSERT OR REPLACE INTO products: the row under the same (shop, product_id)
\* is deleted and the new row inserted.
store_product(rows, product_data) ==
    LET row == product_row(product_data)
    IN  {r \in rows : ~SameKey(r, row)} \cup {row}

(***************************************************************************)
(* Catalog fetcher: fetch_all_products (main.py:79-116).                   *)
(***************************************************************************)
NoError == [type |-> "none"]
NoResponse == [status_code |-> 0]

HTTPException(status, detail) ==
    [type |-> "HTTPException", status_code |-> status, detail |-> detail]

\* str(e) of a raised exception
str_exc(e) == IF e.type = "HTTPException"
              THEN str(e.status_code) \o ": " \o e.detail
              ELSE e.detail

\* main.py:86-88: the cursor the request carries (None: no page_info parameter)
RequestCursor(page_info) == IF Truthy(page_info) THEN page_info ELSE None

\* main.py:114: link_header.split("page_info=")[1].split(">")[0]
next_page_info(link_header) ==
    Concat(split(split(link_header, PageInfoKey)[2], ">")[1])

\* a failed page ends the loop (break) instead of raising: the pages fetched
\* so far are returned
fetch_step_partial(pass, response) ==
    LET sent == [pass EXCEPT
                   !.replies = Append(@, [status_code |-> response.status_code,
                                          text |-> response.text])]
        all == sent.all_products \o Get(response.json, "products", <<>>)
        link_header == Get(response.headers, "Link", <<>>)
    IN  IF response.status_code # HTTP_OK \/ ~Contains(link_header, RelNext)
        THEN [sent EXCEPT !.all_products = all, !.state = "STORING",
                          !.fetched = all, !.idx = 1]
        ELSE [sent EXCEPT !.all_products = all,
                          !.page_info = next_page_info(link_header)]

\* a page's products are put in front of the accumulated list
fetch_step_prepend(pass, response) ==
    LET sent == [pass EXCEPT
                   !.replies = Append(@, [status_code |-> response.status_code,
                                          text |-> response.text])]
    IN  IF response.status_code # HTTP_OK
        THEN [sent EXCEPT
                !.state = "FAILED",
                !.error = HTTPException(response.status_code,
                              "Failed to fetch products: " \o response.text)]
        ELSE LET all == Get(response.json, "products", <<>>) \o sent.all_products
                 link_header == Get(response.headers, "Link", <<>>)
             IN  IF ~Contains(link_header, RelNext)
                 THEN [sent EXCEPT !.all_products = all, !.state = "STORING",
                                   !.fetched = all, !.idx = 1]
                 ELSE [sent EXCEPT !.all_products = all,
                                   !.page_info = next_page_info(link_header)]

\* main.py:86-96: the URL is built from page_info and the request sent; the
\* coroutine then waits at `await client.get` for the answer.
send_request(pass) ==
    [pass EXCEPT !.requests = Append(@, RequestCursor(pass.page_info))]

\* the pass has a page request out: it waits at main.py:96
Awaiting(pass) == Len(pass.requests) = Len(pass.replies) + 1

\* main.py:98-114: the answer to the request that is out is handled.
fetch_step(pass, response) ==
    LET sent == [pass EXCEPT
                   !.replies = Append(@, [status_code |-> response.status_code,
                                          text |-> response.text])]
    IN  IF response.status_code # HTTP_OK
        THEN [sent EXCEPT
                !.state = "FAILED",
                !.error = HTTPException(response.status_code,
                              "Failed to fetch products: " \o response.text)]
        ELSE LET all == sent.all_products \o Get(response.json, "products", <<>>)
                 link_header == Get(response.headers, "Link", <<>>)
             IN  IF ~Contains(link_header, RelNext)
                 THEN [sent EXCEPT !.all_products = all, !.state = "STORING",
                                   !.fetched = all, !.idx = 1]
                 ELSE IF Len(split(link_header, PageInfoKey)) < 2
                 THEN [sent EXCEPT !.all_products = all, !.state = "FAILED",
                                   !.error = [type |-> "IndexError",
                                              detail |-> "list index out of range"]]
                 ELSE [sent EXCEPT !.all_products = all,
                                   !.page_info = next_page_info(link_header)]

(***************************************************************************)
(* Sync passes: background_fetch_products (main.py:174-200) and            *)
(* ingest_products (main.py:118-149).  state is the position of the        *)
(* coroutine: PENDING (created, not started), FETCHING (inside             *)
(* fetch_all_products), STORING (inside the for loop), DONE, FAILED.       *)
(***************************************************************************)
NewPass(kind, shop, token, origin) ==
    [kind |-> kind, shop |-> shop, access_token |-> token, origin |-> origin,
     state |-> "PENDING", page_info |-> None, all_products |-> <<>>,
     fetched |-> <<>>, idx |-> 0, count |-> 0, error |-> NoError,
     requests |-> <<>>, replies |-> <<>>, written |-> <<>>]

\* a pass started after a failed pass of its shop resumes with the products
\* that pass had fetched
pass_start_resume(p) ==
    /\ p \in 1..Len(passes)
    /\ passes[p].state = "PENDING"
    /\ passes' = [passes EXCEPT ![p] =
          IF \E q \in 1..(p - 1) : /\ passes[q].shop = passes[p].shop
                                   /\ passes[q].state = "FAILED"
          THEN LET q == CHOOSE q \in 1..(p - 1) : /\ passes[q].shop = passes[p].shop
                                                 /\ passes[q].state = "FAILED"
               IN  [@ EXCEPT !.state = "STORING",
                             !.fetched = passes[q].all_products, !.idx = 1]
          ELSE [@ EXCEPT !.state = "FETCHING", !.all_products = <<>>,
                         !.page_info = None]]
    /\ UNCHANGED <<shop_tokens, products, products_table, remote, randoms, cbs, refreshes, putLog>>

\* the task starts: fetch_all_products is entered (main.py:81-82)
pass_start(p) ==
    /\ p \in 1..Len(passes)
    /\ passes[p].state = "PENDING"
    /\ passes' = [passes EXCEPT ![p] = [@ EXCEPT !.state = "FETCHING",
                                                 !.all_products = <<>>,
                                                 !.page_info = None]]
    /\ UNCHANGED <<shop_tokens, products, products_table, remote, randoms, cbs, refreshes, putLog>>

\* each page's products are stored as soon as the page arrives
fetch_page_eager(p) ==
    /\ p \in 1..Len(passes)
    /\ passes[p].state = "FETCHING"
    /\ Awaiting(passes[p])
    /\ \E response \in RemoteAnswers(remote, RequestCursor(passes[p].page_info)) :
           /\ passes' = [passes EXCEPT ![p] = fetch_step(@, response)]
           /\ products' = products \cup
                 {product_row(processed_product(passes[p].shop, x)) :
                    x \in {Get(response.json, "products", <<>>)[k] :
                             k \in 1..Len(Get(response.json, "products", <<>>))}}
           /\ products_table' = TRUE
    /\ UNCHANGED <<shop_tokens, remote, randoms, cbs, refreshes, putLog>>

\* main.py:85-96: the loop is entered (again) and the page request goes out.
\* The loop itself has no bound; MaxPageRequests is the model's.
fetch_request(p) ==
    /\ p \in 1..Len(passes)
    /\ passes[p].state = "FETCHING"
    /\ ~Awaiting(passes[p])
    /\ Len(passes[p].requests) < MaxPageRequests
    /\ passes' = [passes EXCEPT ![p] = send_request(@)]
    /\ UNCHANGED <<shop_tokens, products, products_table, remote, randoms, cbs, refreshes, putLog>>

\* main.py:96-114: the remote's answer arrives and is handled
fetch_page(p) ==
    /\ p \in 1..Len(passes)
    /\ passes[p].state = "FETCHING"
    /\ Awaiting(passes[p])
    /\ \E response \in RemoteAnswers(remote, RequestCursor(passes[p].page_info)) :
           passes' = [passes EXCEPT ![p] = fetch_step(@, response)]
    /\ UNCHANGED <<shop_tokens, products, products_table, remote, randoms, cbs, refreshes, putLog>>

\* a failed upsert rolls back what the pass has stored
store_next_rollback(p) ==
    /\ p \in 1..Len(passes)
    /\ passes[p].state = "STORING"
    /\ passes[p].idx <= Len(passes[p].fetched)
    /\ LET pass == passes[p]
           product_data == processed_product(pass.shop, pass.fetched[pass.idx])
       IN  \E ok \in BOOLEAN :
             IF ok
             THEN /\ products' = store_product(products, product_data)
                  /\ products_table' = TRUE
                  /\ passes' = [passes EXCEPT ![p] =
                        [@ EXCEPT !.idx = @ + 1,
                                  !.written = Append(@, product_row(product_data))]]
             ELSE /\ products' = products \ {pass.written[k] : k \in 1..Len(pass.written)}
                  /\ products_table' \in {products_table, TRUE}
                  /\ passes' = [passes EXCEPT ![p] =
                        [@ EXCEPT !.state = "FAILED",
                                  !.error = DatabaseLocked]]
    /\ UNCHANGED <<shop_tokens, remote, randoms, cbs, refreshes, putLog>>

\* an exception of a background pass is not caught: it takes down the worker
\* and the passes running in it
store_next_crash(p) ==
    /\ p \in 1..Len(passes)
    /\ passes[p].state = "STORING"
    /\ passes[p].idx <= Len(passes[p].fetched)
    /\ LET pass == passes[p]
           product_data == processed_product(pass.shop, pass.fetched[pass.idx])
           failure == DatabaseLocked
       IN  \E ok \in BOOLEAN :
             IF ok
             THEN /\ products' = store_product(products, product_data)
                  /\ products_table' = TRUE
                  /\ passes' = [passes EXCEPT ![p] =
                        [@ EXCEPT !.idx = @ + 1,
                                  !.written = Append(@, product_row(product_data))]]
             ELSE /\ products' = products
                  /\ products_table' \in {products_table, TRUE}
                  /\ passes' = [q \in 1..Len(passes) |->
                        IF q = p \/ (pass.kind = "background"
                                       /\ passes[q].state \in {"FETCHING", "STORING"})
                        THEN [passes[q] EXCEPT !.state = "FAILED", !.error = failure]
                        ELSE passes[q]]
    /\ UNCHANGED <<shop_tokens, remote, randoms, cbs, refreshes, putLog>>

\* one iteration of the for loop: await store_product(shop, processed_product).
\* The storage may raise, before or after CREATE TABLE IF NOT EXISTS took
\* effect (db.py:127-142 runs outside the INSERT's transaction).
store_next(p) ==
    /\ p \in 1..Len(passes)
    /\ passes[p].state = "STORING"
    /\ passes[p].idx <= Len(passes[p].fetched)
    /\ LET pass == passes[p]
           product_data == processed_product(pass.shop, pass.fetched[pass.idx])
       IN  \E ok \in BOOLEAN :
             IF ok
             THEN /\ products' = store_product(products, product_data)
                  /\ products_table' = TRUE
                  /\ passes' = [passes EXCEPT ![p] =
                        [@ EXCEPT !.idx = @ + 1,
                                  !.written = Append(@, product_row(product_data))]]
             ELSE /\ products' = products
                  /\ products_table' \in {products_table, TRUE}
                  /\ passes' = [passes EXCEPT ![p] =
                        [@ EXCEPT !.state = "FAILED",
                                  !.error = DatabaseLocked]]
    /\ UNCHANGED <<shop_tokens, remote, randoms, cbs, refreshes, putLog>>

\* the for loop is exhausted: the pass returns (ingest_products: len(products))
pass_finish(p) ==
    /\ p \in 1..Len(passes)
    /\ passes[p].state = "STORING"
    /\ passes[p].idx > Len(passes[p].fetched)
    /\ passes' = [passes EXCEPT ![p] =
          [@ EXCEPT !.state = "DONE",
                    !.count = IF passes[p].kind = "ingest"
                              THEN Len(passes[p].fetched) ELSE 0]]
    /\ UNCHANGED <<shop_tokens, products, products_table, remote, randoms, cbs, refreshes, putLog>>

(***************************************************************************)
(* /callback (main.py:203-245) with get_access_token (main.py:272-293) and *)
(* store_access_token (db.py:50-85).  pc: exchange (the POST is out),      *)
(* store (before the upsert), verify (after the commit, before the         *)
(* verification SELECT), done (the response is chosen).                    *)
(***************************************************************************)
Triggers == Len(cbs) + Len(refreshes) + Len(randoms)

\* The hmac query parameter the platform adds to the redirect: the keyed
\* digest of the other parameters.  A request may carry it, carry another
\* value, or carry none; callback reads shop, code and host only.
Sign(shop, code) == "hmac:" \o shop \o ":" \o code
Forged == "forged"

\* signed redirects for every shop, one with a forged signature, one with
\* none, and the requests that lack shop or code
CallbackParams ==
    {[shop |-> s, code |-> Code, hmac |-> Sign(s, Code)] : s \in Shops}
    \cup {[shop |-> "a.myshopify.com", code |-> Code, hmac |-> Forged]}
    \cup {[shop |-> "b.myshopify.com", code |-> Code, hmac |-> None]}
    \cup {[shop |-> None, code |-> Code, hmac |-> None]}
    \cup {[shop |-> s, code |-> None, hmac |-> None] : s \in Shops}

\* main.py:67: the scopes the install redirect asks for, and a grant of the
\* first of them alone (the text cut at its commas)
RequestedScopes == <<"read_products", ",", "write_products">>
ReadOnlyScopes == <<"read_products">>

\* what the token endpoint may answer
ExchangeAnswers ==
    {[status_code |-> HTTP_OK, text |-> "",
      json |-> [access_token |-> t, scope |-> RequestedScopes]] : t \in Tokens}
    \cup {[status_code |-> HTTP_OK, text |-> "",
            json |-> [access_token |-> "shpat_1", scope |-> ReadOnlyScopes]]}
    \cup {[status_code |-> HTTP_OK, text |-> "", json |-> [scope |-> <<>>]]}
    \cup {[status_code |-> s, text |-> ErrorText(s),
           json |-> [error |-> ErrorText(s)]] : s \in ErrorStatuses}

\* main.py:243-245: every exception of the try block becomes a 500
callback_error(cb, e) ==
    [cb EXCEPT !.pc = "done",
               !.response = [status_code |-> 500, detail |-> str_exc(e)]]

NotePut(log, shop, field, value) ==
    [log EXCEPT ![shop] = [@ EXCEPT ![field] = value]]

\* main.py:207-217: the request arrives; with shop and code present the
\* exchange POST is sent.
callback_start ==
    /\ Triggers < MaxTriggers
    /\ \E params \in CallbackParams :
         cbs' = Append(cbs,
           IF ~(Truthy(params.shop) /\ Truthy(params.code))
           THEN [shop |-> params.shop, code |-> params.code,
                 hmac |-> params.hmac, scope |-> None, pc |-> "done",
                 access_token |-> None, exchanges |-> 0,
                 exchange_status |-> 0, scheduled |-> 0,
                 response |-> [status_code |-> 400,
                               detail |-> "Missing required parameters"]]
           ELSE [shop |-> params.shop, code |-> params.code,
                 hmac |-> params.hmac, scope |-> None, pc |-> "exchange",
                 access_token |-> None, exchanges |-> 1,
                 exchange_status |-> 0, scheduled |-> 0,
                 response |-> NoResponse])
    /\ UNCHANGED <<shop_tokens, products, products_table, remote, randoms, refreshes, passes, putLog>>

\* a failed exchange is sent again instead of raised
callback_exchange_retry(i) ==
    /\ i \in 1..Len(cbs)
    /\ cbs[i].pc = "exchange"
    /\ \E response \in ExchangeAnswers :
         cbs' = [cbs EXCEPT ![i] =
           IF response.status_code # HTTP_OK
           THEN [@ EXCEPT !.exchange_status = response.status_code,
                          !.exchanges = IF @ < 2 THEN @ + 1 ELSE @]
           ELSE [@ EXCEPT !.pc = "store",
                          !.exchange_status = response.status_code,
                          !.scope = Get(response.json, "scope", None),
                          !.access_token = Get(response.json, "access_token", None)]]
    /\ UNCHANGED <<shop_tokens, products, products_table, remote, randoms, refreshes, passes, putLog>>

\* main.py:286-293: the token endpoint answers
callback_exchange(i) ==
    /\ i \in 1..Len(cbs)
    /\ cbs[i].pc = "exchange"
    /\ \E response \in ExchangeAnswers :
         cbs' = [cbs EXCEPT ![i] =
           IF response.status_code # HTTP_OK
           THEN callback_error(
                    [@ EXCEPT !.exchange_status = response.status_code],
                    HTTPException(response.status_code,
                        "Failed to get access token: " \o response.text))
           ELSE [@ EXCEPT !.pc = "store",
                          !.exchange_status = response.status_code,
                          !.scope = Get(response.json, "scope", None),
                          !.access_token = Get(response.json, "access_token", None)]]
    /\ UNCHANGED <<shop_tokens, products, products_table, remote, randoms, refreshes, passes, putLog>>

\* db.py:55-67: connect, upsert, commit.  The storage may raise; a NULL
\* token violates NOT NULL.
callback_store(i) ==
    /\ i \in 1..Len(cbs)
    /\ cbs[i].pc = "store"
    /\ \E ok \in BOOLEAN :
         IF ok /\ cbs[i].access_token # None
         THEN /\ shop_tokens' = upsert_token(shop_tokens, cbs[i].shop,
                                             cbs[i].access_token)
              /\ cbs' = [cbs EXCEPT ![i] = [@ EXCEPT !.pc = "verify"]]
              /\ putLog' = NotePut(putLog, cbs[i].shop, "stored", TRUE)
         ELSE /\ shop_tokens' = shop_tokens
              /\ cbs' = [cbs EXCEPT ![i] = callback_error(@,
                            IF ok THEN NullToken ELSE DatabaseError)]
              /\ putLog' = NotePut(putLog, cbs[i].shop, "failed", TRUE)
    /\ UNCHANGED <<products, products_table, remote, randoms, refreshes, passes>>

\* db.py:76
VerificationFailed == [type |-> "Exception", detail |-> "Token verification failed"]

\* the background task is added whether or not store_access_token raised
callback_verify_lenient(i) ==
    /\ i \in 1..Len(cbs)
    /\ cbs[i].pc = "verify"
    /\ \E ok \in BOOLEAN :
         LET result == select_token(shop_tokens, cbs[i].shop)
         IN  /\ passes' = Append(passes,
                   NewPass("background", cbs[i].shop, cbs[i].access_token, 0))
             /\ IF ok /\ result # None /\ result = cbs[i].access_token
                THEN /\ cbs' = [cbs EXCEPT ![i] =
                           [@ EXCEPT !.pc = "done",
                                     !.scheduled = Len(passes) + 1,
                                     !.response = [status_code |-> 302,
                                                   detail |-> "redirect"]]]
                     /\ putLog' = NotePut(putLog, cbs[i].shop, "last",
                                          cbs[i].access_token)
                ELSE /\ cbs' = [cbs EXCEPT ![i] = callback_error(
                           [@ EXCEPT !.scheduled = Len(passes) + 1],
                           IF ok THEN VerificationFailed ELSE DatabaseError)]
                     /\ putLog' = NotePut(putLog, cbs[i].shop, "failed", TRUE)
    /\ UNCHANGED <<shop_tokens, products, products_table, remote, randoms, refreshes>>

\* db.py:69-76 and main.py:223-241: the verification SELECT; on success the
\* background task is added and the redirect returned.
callback_verify(i) ==
    /\ i \in 1..Len(cbs)
    /\ cbs[i].pc = "verify"
    /\ \E ok \in BOOLEAN :
         LET result == select_token(shop_tokens, cbs[i].shop)
         IN  IF ok /\ result # None /\ result = cbs[i].access_token
             THEN /\ passes' = Append(passes,
                        NewPass("background", cbs[i].shop, cbs[i].access_token, 0))
                  /\ cbs' = [cbs EXCEPT ![i] =
                        [@ EXCEPT !.pc = "done",
                                  !.scheduled = Len(passes) + 1,
                                  !.response = [status_code |-> 302,
                                                detail |-> "redirect"]]]
                  /\ putLog' = NotePut(putLog, cbs[i].shop, "last",
                                       cbs[i].access_token)
             ELSE /\ passes' = passes
                  /\ cbs' = [cbs EXCEPT ![i] = callback_error(@,
                        IF ok THEN VerificationFailed ELSE DatabaseError)]
                  /\ putLog' = NotePut(putLog, cbs[i].shop, "failed", TRUE)
    /\ UNCHANGED <<shop_tokens, products, products_table, remote, randoms, refreshes>>

(***************************************************************************)
(* /api/refresh-products (main.py:248-270).                                *)
(***************************************************************************)
\* main.py:251-261: the request arrives; the token is looked up outside the
\* try block, so a lookup that raises ends the request with the server's
\* 500; with a token ingest_products is entered.
refresh_start ==
    /\ Triggers < MaxTriggers
    /\ \E shop \in Shops \cup {None} :
       \E lookup \in lookup_token(shop_tokens, shop) :
         LET access_token == lookup.value
             r == [shop |-> shop, pc |-> "done", pass |-> 0,
                   response |-> NoResponse]
         IN  IF ~Truthy(shop)
             THEN /\ refreshes' = Append(refreshes, [r EXCEPT !.response =
                        [status_code |-> 200, error |-> "Missing shop parameter"]])
                  /\ passes' = passes
             ELSE IF lookup.raised
             THEN /\ refreshes' = Append(refreshes,
                        [r EXCEPT !.response = ServerError])
                  /\ passes' = passes
             ELSE IF ~Truthy(access_token)
             THEN /\ refreshes' = Append(refreshes, [r EXCEPT !.response =
                        [status_code |-> 200, error |-> "Shop not authorized"]])
                  /\ passes' = passes
             ELSE /\ refreshes' = Append(refreshes,
                        [r EXCEPT !.pc = "ingest", !.pass = Len(passes) + 1])
                  /\ passes' = Append(passes,
                        NewPass("ingest", shop, access_token, Len(refreshes) + 1))
    /\ UNCHANGED <<shop_tokens, products, products_table, remote, randoms, cbs, putLog>>

\* main.py:261-270: ingest_products returned or raised
refresh_respond(r) ==
    /\ r \in 1..Len(refreshes)
    /\ refreshes[r].pc = "ingest"
    /\ LET pass == passes[refreshes[r].pass]
       IN  /\ pass.state \in {"DONE", "FAILED"}
           /\ refreshes' = [refreshes EXCEPT ![r] =
                [@ EXCEPT !.pc = "done",
                          !.response =
                             IF pass.state = "DONE"
                             THEN [status_code |-> 200, success |-> TRUE,
                                   product_count |-> pass.count]
                             ELSE [status_code |-> 200, success |-> FALSE,
                                   error |-> str_exc(pass.error)]]]
    /\ UNCHANGED <<shop_tokens, products, products_table, remote, randoms, cbs, passes, putLog>>

(***************************************************************************)
(* /random-products (main.py:347-395) with get_shop_products               *)
(* (db.py:174-198).  pc: ingest (inside ingest_products), done.            *)
(***************************************************************************)
MaxPicks == 4
Placeholder == "https://via.placeholder.com/400"

\* db.py:180-196: SELECT * FROM products WHERE shop = ?, the three JSON
\* columns parsed: the value a call returns when its statements succeed
get_shop_products(rows, shop) ==
    {[r EXCEPT !.variants = json_loads(r.variants),
               !.images = json_loads(r.images),
               !.options = json_loads(r.options)] :
        r \in {x \in rows : x.shop = shop}}

\* db.py:174-198: what a call does: it returns that value, or raises: always
\* while the table does not exist ('no such table: products'), and whenever
\* the storage fails the read (the file is locked by another connection)
NoSuchTable ==
    [type |-> "OperationalError", detail |-> "no such table: products"]
read_products(rows, table, shop) ==
    (IF table
     THEN {[raised |-> FALSE, value |-> get_shop_products(rows, shop)]}
     ELSE {[raised |-> TRUE, value |-> NoSuchTable]})
    \cup {[raised |-> TRUE, value |-> DatabaseLocked]}

\* main.py:383-393
recommendation(p) ==
    [title |-> p.title,
     featuredImage |-> IF p.images # <<>> THEN p.images[1].src ELSE Placeholder,
     price |-> IF p.variants # <<>>
               THEN "$" \o Get(p.variants[1], "price", "0.00") ELSE "$0.00",
     variantId |-> IF p.variants # <<>> THEN Get(p.variants[1], "id", "") ELSE "",
     onlineStoreUrl |-> "/products/" \o p.handle]

\* random.sample(products, min(4, len(products))): any arrangement of
\* pick_count distinct products
sample(found) ==
    LET pick_count == IF Cardinality(found) < MaxPicks
                      THEN Cardinality(found) ELSE MaxPicks
    IN  {c \in [1..pick_count -> found] :
            \A i, j \in 1..pick_count : i # j => c[i] # c[j]}

\* main.py:374-395: the answers for the products found
recommendations(found) ==
    {[status_code |-> 200,
      recommendations |-> [k \in 1..Len(chosen) |-> recommendation(chosen[k])]] :
        chosen \in sample(found)}

random_error(text) == [status_code |-> 200, error |-> text]

\* main.py:350-368: the request arrives; the local catalog is read (any
\* exception of the read is answered with an error), and with no product
\* found the token is looked up (outside the try blocks: a lookup
\* that raises ends the request with the server's 500); with a stored token
\* ingest_products is entered.
random_start ==
    /\ Triggers < MaxTriggers
    /\ \E shop \in Shops \cup {None} :
       \E read \in read_products(products, products_table, shop) :
       \E lookup \in lookup_token(shop_tokens, shop) :
         LET found == read.value
             access_token == lookup.value
             r == [shop |-> shop, pc |-> "done", pass |-> 0,
                   response |-> NoResponse]
         IN  IF ~Truthy(shop)
             THEN /\ randoms' = Append(randoms, [r EXCEPT !.response =
                        random_error("Missing shop parameter")])
                  /\ passes' = passes
             ELSE IF read.raised
             THEN /\ randoms' = Append(randoms, [r EXCEPT !.response =
                        random_error("Failed to fetch products from database")])
                  /\ passes' = passes
             ELSE IF found # {}
             THEN /\ \E reply \in recommendations(found) :
                        randoms' = Append(randoms, [r EXCEPT !.response = reply])
                  /\ passes' = passes
             ELSE IF lookup.raised
             THEN /\ randoms' = Append(randoms, [r EXCEPT !.response = ServerError])
                  /\ passes' = passes
             ELSE IF ~Truthy(access_token)
             THEN /\ randoms' = Append(randoms, [r EXCEPT !.response =
                        random_error("Shop not authorized")])
                  /\ passes' = passes
             ELSE /\ randoms' = Append(randoms,
                        [r EXCEPT !.pc = "ingest", !.pass = Len(passes) + 1])
                  /\ passes' = Append(passes,
                        NewPass("ingest", shop, access_token, Len(randoms) + 1))
    /\ UNCHANGED <<shop_tokens, products, products_table, remote, cbs, refreshes,
                   putLog>>

\* main.py:367-395: ingest_products returned or raised; on return the local
\* catalog is read again, inside the same try block: an exception of either
\* is answered 'Failed to refresh products'.
random_respond(r) ==
    /\ r \in 1..Len(randoms)
    /\ randoms[r].pc = "ingest"
    /\ LET pass == passes[randoms[r].pass]
       IN  /\ pass.state \in {"DONE", "FAILED"}
           /\ \E read \in read_products(products, products_table, randoms[r].shop) :
              \E reply \in IF pass.state = "FAILED" \/ read.raised
                            THEN {random_error("Failed to refresh products")}
                            ELSE recommendations(read.value) :
                 randoms' = [randoms EXCEPT ![r] =
                                [@ EXCEPT !.pc = "done", !.response = reply]]
    /\ UNCHANGED <<shop_tokens, products, products_table, remote, cbs, refreshes,
                   passes, putLog>>

(***************************************************************************)
(* The program, and its parts.                                             *)
(*                                                                         *)
(* Spec is the whole service.  The sync passes never write shop_tokens,    *)
(* cbs or putLog, and the callback steps read nothing of a pass: the       *)
(* credential side is checked under SpecInstall (the callback steps        *)
(* alone), the sync side under SpecSync and SpecFetch (the callback steps, *)
(* the refresh handler and the passes), the read side under SpecRead (the  *)
(* callback steps, /random-products and the passes).                       *)
(***************************************************************************)
InitStores ==
    /\ shop_tokens = <<>>
    /\ products = {}
    /\ products_table = FALSE
    /\ cbs = <<>>
    /\ refreshes = <<>>
    /\ randoms = <<>>
    /\ passes = <<>>
    /\ putLog = [s \in Shops |-> [last |-> None, failed |-> FALSE, stored |-> FALSE]]

Init == InitStores /\ remote \in Remotes

CallbackSteps ==
    \/ callback_start
    \/ \E i \in 1..MaxTriggers : callback_exchange(i)
    \/ \E i \in 1..MaxTriggers : callback_store(i)
    \/ \E i \in 1..MaxTriggers : callback_verify(i)

PassSteps ==
    \/ \E p \in 1..MaxTriggers : pass_start(p)
    \/ \E p \in 1..MaxTriggers : fetch_request(p)
    \/ \E p \in 1..MaxTriggers : fetch_page(p)
    \/ \E p \in 1..MaxTriggers : store_next(p)
    \/ \E p \in 1..MaxTriggers : pass_finish(p)

SyncSteps ==
    \/ refresh_start
    \/ \E r \in 1..MaxTriggers : refresh_respond(r)
    \/ PassSteps

ReadSteps ==
    \/ random_start
    \/ \E r \in 1..MaxTriggers : random_respond(r)

Next == CallbackSteps \/ SyncSteps \/ ReadSteps

Spec == Init /\ [][Next]_vars

\* the credential side: callbacks only
InitInstall == InitStores /\ remote = RemoteEmpty
SpecInstall == InitInstall /\ [][CallbackSteps]_vars

\* the sync side: callbacks, /api/refresh-products and the passes
NextSync == CallbackSteps \/ SyncSteps
InitSync == InitStores /\ remote \in SyncRemotes
SpecSync == InitSync /\ [][NextSync]_vars

\* the fetcher against every catalog
SpecFetch == Init /\ [][NextSync]_vars

\* the read side: callbacks, /random-products and the passes
NextRead == CallbackSteps \/ ReadSteps \/ PassSteps
SpecRead == InitSync /\ [][NextRead]_vars

(***************************************************************************)
(* Properties of the credential store and the callback (SpecInstall).      *)
(***************************************************************************)
Callbacks == 1..Len(cbs)
Redirected(i) == cbs[i].pc = "done" /\ cbs[i].response.status_code = 302

\* a store_access_token call for the shop has started and not returned
PutInFlight(shop) ==
    \E i \in Callbacks : cbs[i].shop = shop /\ cbs[i].pc \in {"store", "verify"}

RowsOf(shop) == {i \in 1..Len(shop_tokens) : shop_tokens[i].shop = shop}

\* C1: once the store_access_token calls made for a shop have all returned
\* normally, get_access_token_for_shop returns the token of the most recent
\* one, and None for a shop that never had one.
C1_LastWriteWins ==
    \A shop \in Shops :
        (~PutInFlight(shop) /\ ~putLog[shop].failed)
        => get_access_token_for_shop(shop_tokens, shop) = putLog[shop].last

\* two successful calls for one shop with different tokens, the other shop
\* never stored
C1_Witness ==
    \E i, j \in Callbacks :
        /\ i < j
        /\ cbs[i].shop = cbs[j].shop
        /\ Redirected(i) /\ Redirected(j)
        /\ cbs[i].access_token # cbs[j].access_token
        /\ ~putLog[cbs[i].shop].failed
        /\ \E other \in Shops : ~putLog[other].stored

\* C2: the credential table holds at most one row per shop, and as many rows
\* as there are distinct shops ever stored.
C2_OneRowPerShop ==
    /\ \A shop \in Shops : Cardinality(RowsOf(shop)) <= 1
    /\ Len(shop_tokens) = Cardinality({shop \in Shops : putLog[shop].stored})

\* the upsert ran twice on one shop, with different tokens
C2_Witness ==
    \E i, j \in Callbacks :
        /\ i # j
        /\ cbs[i].shop = cbs[j].shop
        /\ cbs[i].pc \in {"verify", "done"} /\ cbs[i].exchange_status = HTTP_OK
        /\ Redirected(j)
        /\ cbs[i].access_token # None
        /\ cbs[i].access_token # cbs[j].access_token
        /\ Cardinality(RowsOf(cbs[i].shop)) = 1

\* C10: a callback whose exchange was answered with a non-success status has
\* ended in a failure response after exactly one exchange request, with no
\* sync pass scheduled; the step that handles the answer changes neither the
\* credential table nor the passes, and the callback takes no step after it.
ExchangeFailed(cb) == cb.exchange_status \notin {0, HTTP_OK}

C10_ExchangeFailureIsTerminal ==
    /\ [](\A i \in Callbacks :
            ExchangeFailed(cbs[i]) =>
                /\ cbs[i].pc = "done"
                /\ cbs[i].response.status_code = 500
                /\ cbs[i].exchanges = 1
                /\ cbs[i].scheduled = 0
                /\ cbs[i].access_token = None)
    /\ [][\A i \in Callbacks :
            /\ (~ExchangeFailed(cbs[i]) /\ ExchangeFailed(cbs'[i]))
               => (shop_tokens' = shop_tokens /\ passes' = passes /\ putLog' = putLog)
            /\ ExchangeFailed(cbs[i]) => cbs'[i] = cbs[i]]_vars

\* an exchange failed for a shop that already has a credential
C10_Witness ==
    \E i \in Callbacks :
        /\ ExchangeFailed(cbs[i])
        /\ cbs[i].response.status_code = 500
        /\ get_access_token_for_shop(shop_tokens, cbs[i].shop) # None

\* the request's hmac parameter is the signature of its parameters
SignatureVerifies(cb) == cb.hmac # None /\ cb.hmac = Sign(cb.shop, cb.code)

\* C11: a correctly signed callback whose exchange was answered 200 with a
\* granted scope that lacks one of the required scopes got no token from
\* get_access_token, never reaches the credential upsert, is not redirected
\* and schedules no sync pass.
ScopeSet(scope) ==
    IF scope = None THEN {}
    ELSE {Concat(split(scope, ",")[k]) : k \in 1..Len(split(scope, ","))} \ {""}
RequiredScopes == ScopeSet(RequestedScopes)
ScopeShort(cb) ==
    cb.exchange_status = HTTP_OK /\ ~(RequiredScopes \subseteq ScopeSet(cb.scope))

C11_ScopeError ==
    \A i \in Callbacks :
        (SignatureVerifies(cbs[i]) /\ ScopeShort(cbs[i])) =>
            /\ cbs[i].access_token = None
            /\ cbs[i].pc # "verify"
            /\ cbs[i].response.status_code # 302
            /\ cbs[i].scheduled = 0

\* C12: a callback whose hmac parameter is missing or is not the signature
\* of its parameters is rejected at once: no exchange request was sent for
\* it, it is not redirected and it schedules no sync pass.
C12_VerifiedBeforeExchange ==
    \A i \in Callbacks :
        ~SignatureVerifies(cbs[i]) =>
            /\ cbs[i].exchanges = 0
            /\ cbs[i].pc = "done"
            /\ cbs[i].response.status_code # 302
            /\ cbs[i].scheduled = 0

\* C13: a callback goes exchange -> store -> verify -> done and schedules
\* its sync pass in the last of these steps only: after the exchange
\* answered 200 and the upsert committed, when the verification read finds
\* the callback's token in the table; the pass is a new background pass for
\* the callback's shop with that token.  A callback that answered anything
\* but the redirect scheduled nothing.
CallbackMoves ==
    {<<"exchange", "store">>, <<"exchange", "done">>, <<"store", "verify">>,
     <<"store", "done">>, <<"verify", "done">>}
Schedules(i) == cbs[i].scheduled = 0 /\ cbs'[i].scheduled # 0

C13_ExchangeStoreSchedule ==
    /\ [](\A i \in Callbacks :
            /\ cbs[i].scheduled # 0 =>
                 /\ Redirected(i)
                 /\ cbs[i].exchange_status = HTTP_OK
                 /\ cbs[i].scheduled \in 1..Len(passes)
                 /\ passes[cbs[i].scheduled].kind = "background"
                 /\ passes[cbs[i].scheduled].shop = cbs[i].shop
                 /\ passes[cbs[i].scheduled].access_token = cbs[i].access_token
            /\ (cbs[i].pc = "done" /\ ~Redirected(i)) => cbs[i].scheduled = 0)
    /\ [][/\ \A i \in Callbacks :
               /\ cbs[i].pc # cbs'[i].pc => <<cbs[i].pc, cbs'[i].pc>> \in CallbackMoves
               /\ cbs'[i].pc = "store" => cbs'[i].exchange_status = HTTP_OK
               /\ (cbs[i].pc = "store" /\ cbs'[i].pc = "verify")
                  => select_token(shop_tokens', cbs[i].shop) = cbs[i].access_token
               /\ Schedules(i) =>
                    /\ cbs[i].pc = "verify"
                    /\ select_token(shop_tokens, cbs[i].shop) = cbs[i].access_token
                    /\ shop_tokens' = shop_tokens
                    /\ passes' = Append(passes, NewPass("background", cbs[i].shop,
                                                        cbs[i].access_token, 0))
                    /\ cbs'[i].scheduled = Len(passes')
          /\ passes' # passes => \E i \in Callbacks : Schedules(i)]_vars

\* one callback of a shop failed in store_access_token, another one of the
\* same shop went through and its pass carries its token
C13_Witness ==
    \E i, j \in Callbacks :
        /\ cbs[i].shop = cbs[j].shop
        /\ cbs[i].pc = "done" /\ cbs[i].exchange_status = HTTP_OK
        /\ cbs[i].response.status_code = 500
        /\ Redirected(j)
        /\ Len(passes) = 1
        /\ passes[cbs[j].scheduled].access_token = cbs[j].access_token

\* C19: every upsert leaves exactly one row for its shop, holding the token
\* of that call, and the rows of the other shops as they were; no other
\* step writes the table.  So however two calls for a shop interleave, the
\* table holds one row for the shop with the token of one of them, and
\* get_access_token_for_shop returns it.
TokenRows(rows, shop) == {k \in 1..Len(rows) : rows[k].shop = shop}
Upserts(i) == cbs[i].pc = "store" /\ cbs'[i].pc = "verify"
TokensPut(shop) ==
    {cbs[i].access_token : i \in {j \in Callbacks : cbs[j].shop = shop}}

C19_ConcurrentPutsKeepOneWrite ==
    /\ [](\A shop \in Shops :
            /\ Cardinality(TokenRows(shop_tokens, shop)) <= 1
            /\ \A k \in TokenRows(shop_tokens, shop) :
                 /\ shop_tokens[k].access_token \in TokensPut(shop) \ {None}
                 /\ get_access_token_for_shop(shop_tokens, shop)
                      = shop_tokens[k].access_token)
    /\ [][/\ \A i \in Callbacks :
               Upserts(i) =>
                 /\ \E k \in 1..Len(shop_tokens') :
                      /\ TokenRows(shop_tokens', cbs[i].shop) = {k}
                      /\ shop_tokens'[k].access_token = cbs[i].access_token
                 /\ \A other \in Shops \ {cbs[i].shop} :
                      select_token(shop_tokens', other) = select_token(shop_tokens, other)
          /\ shop_tokens' # shop_tokens => \E i \in Callbacks : Upserts(i)]_vars

\* two calls for one shop with different tokens, both upserts done before
\* either verification read: the first call found the second's token and
\* failed, the second returned, the table holds the second's token alone
C19_Witness ==
    \E i, j \in Callbacks :
        /\ i # j
        /\ cbs[i].shop = cbs[j].shop
        /\ cbs[i].access_token # None
        /\ cbs[i].access_token # cbs[j].access_token
        /\ cbs[i].pc = "done"
        /\ cbs[i].response.detail = "Token verification failed"
        /\ Redirected(j)
        /\ Len(shop_tokens) = 1
        /\ get_access_token_for_shop(shop_tokens, cbs[j].shop) = cbs[j].access_token

\* C20: among correctly signed callbacks that were granted the required
\* scopes, one whose exchange succeeded ends in a failure response only when
\* a storage statement of its store_access_token call failed.
WellFormed(shop) ==
    \A j \in Callbacks :
        cbs[j].shop = shop => (SignatureVerifies(cbs[j]) /\ ~ScopeShort(cbs[j]))

C20_FailsOnlyOnStorageFailure ==
    \A i \in Callbacks :
        (/\ WellFormed(cbs[i].shop)
         /\ cbs[i].pc = "done" /\ cbs[i].exchange_status = HTTP_OK
         /\ cbs[i].response.status_code # 302)
        => cbs[i].response.detail \in {DatabaseError.detail, NullToken.detail}

(***************************************************************************)
(* Properties of the product store and of the sync passes (SpecSync).      *)
(***************************************************************************)
Passes == 1..Len(passes)
RowsFor(shop, items) ==
    [k \in 1..Len(items) |-> product_row(processed_product(shop, items[k]))]
Stepped(p) == passes'[p] # passes[p]
Stored(p) == Len(passes'[p].written) = Len(passes[p].written) + 1
LastWritten(p) == passes'[p].written[Len(passes'[p].written)]

\* C3: a store_product call leaves exactly one record under its
\* (shop, product_id), equal in every column to the record of that call, and
\* leaves the records under every other key as they were.
C3_UpsertFullReplace ==
    [][\A p \in Passes :
          Stored(p) =>
            LET row == LastWritten(p)
            IN  /\ row = product_row(processed_product(passes[p].shop,
                                        passes[p].fetched[passes[p].idx]))
                /\ {r \in products' : SameKey(r, row)} = {row}
                /\ {r \in products' : ~SameKey(r, row)}
                     = {r \in products : ~SameKey(r, row)}]_vars

\* one pass stored the same product id twice with different columns; the
\* table holds the second record alone under that key, beside another key
C3_Witness ==
    \E p \in Passes :
        \E i, j \in 1..Len(passes[p].written) :
            LET first == passes[p].written[i]
                second == passes[p].written[j]
            IN  /\ i < j /\ j = Len(passes[p].written)
                /\ SameKey(first, second)
                /\ first.title # second.title
                /\ first.images # second.images
                /\ {r \in products : SameKey(r, second)} = {second}
                /\ \E r \in products : ~SameKey(r, second)

\* C6: a pass one of whose page requests was answered with a non-success
\* status has failed on that answer with an error carrying its status and
\* body; nothing was returned by the fetch, nothing stored by the pass, and
\* the refresh handler that ran it answers a failure without a count.
BadReply(reply) == reply.status_code # HTTP_OK
FetchFailed(pass) == \E k \in 1..Len(pass.replies) : BadReply(pass.replies[k])

C6_FetchErrorAbandonsResults ==
    /\ \A p \in Passes :
         FetchFailed(passes[p]) =>
           LET pass == passes[p]
               last == pass.replies[Len(pass.replies)]
           IN  /\ \A k \in 1..(Len(pass.replies) - 1) : ~BadReply(pass.replies[k])
               /\ pass.state = "FAILED"
               /\ pass.error.type = "HTTPException"
               /\ pass.error.status_code = last.status_code
               /\ pass.error.detail = "Failed to fetch products: " \o last.text
               /\ pass.fetched = <<>>
               /\ pass.written = <<>>
               /\ pass.count = 0
    /\ \A r \in 1..Len(refreshes) :
         (refreshes[r].pc = "done" /\ refreshes[r].pass # 0
            /\ FetchFailed(passes[refreshes[r].pass]))
         => /\ refreshes[r].response.success = FALSE
            /\ "product_count" \notin DOMAIN refreshes[r].response

\* the second page failed after the first page's products were accumulated
C6_Witness ==
    \E p \in Passes :
        /\ Len(passes[p].replies) = 2
        /\ BadReply(passes[p].replies[2])
        /\ Len(passes[p].all_products) > 0
        /\ passes[p].state = "FAILED"

\* C7: no store_product call happens in a pass before its fetch has
\* returned: a pass that is fetching, or failed while fetching, has stored
\* nothing, its steps leave the product table as it is, and the table only
\* changes by the upsert of a pass that is storing.
InFetchPhase(pass) ==
    \/ pass.state \in {"PENDING", "FETCHING"}
    \/ pass.state = "FAILED" /\ pass.idx = 0

C7_FetchFailureLeavesStore ==
    /\ [](\A p \in Passes : InFetchPhase(passes[p]) => passes[p].written = <<>>)
    /\ [][/\ \A p \in Passes :
               (InFetchPhase(passes[p]) /\ Stepped(p)) => products' = products
          /\ products' # products =>
               \E p \in Passes : passes[p].state = "STORING" /\ Stored(p)]_vars

\* a pass failed while fetching, for a shop whose products of an earlier
\* pass are in the table
C7_Witness ==
    \E p \in Passes :
        /\ passes[p].state = "FAILED" /\ passes[p].idx = 0
        /\ Len(passes[p].replies) > 0
        /\ \E q \in Passes : /\ q < p
                             /\ passes[q].shop = passes[p].shop
                             /\ passes[q].state = "DONE"
        /\ \E r \in products : r.shop = passes[p].shop

\* C8: a pass moves PENDING -> FETCHING -> STORING -> DONE, or to FAILED
\* from FETCHING or STORING; DONE and FAILED passes never change; STORING is
\* entered from FETCHING alone, with the products that fetch returned; a new
\* pass is PENDING with nothing fetched, and starts fetching at the first
\* page.
PassMoves ==
    {<<"PENDING", "FETCHING">>, <<"FETCHING", "STORING">>,
     <<"FETCHING", "FAILED">>, <<"STORING", "DONE">>, <<"STORING", "FAILED">>}

C8_PassStateMachine ==
    [][/\ Len(passes') >= Len(passes)
       /\ \A p \in Passes :
            LET a == passes[p]
                b == passes'[p]
            IN  /\ a.state # b.state => <<a.state, b.state>> \in PassMoves
                /\ a.state \in {"DONE", "FAILED"} => b = a
                /\ (a.state = "PENDING" /\ b.state = "FETCHING")
                   => (b.page_info = None /\ b.all_products = <<>>
                       /\ b.requests = <<>>)
                /\ (a.state = "FETCHING" /\ b.state = "STORING")
                   => /\ \A k \in 1..Len(b.replies) : ~BadReply(b.replies[k])
                      /\ b.requests[1] = None
                      /\ b.fetched = b.all_products
                /\ a.state = "STORING" => b.fetched = a.fetched
       /\ \A p \in (Len(passes) + 1)..Len(passes') :
            /\ passes'[p].state = "PENDING"
            /\ passes'[p].fetched = <<>>
            /\ passes'[p].idx = 0]_vars

\* after a failed pass, a later pass of the same shop ran to DONE
C8_Witness ==
    \E p, q \in Passes :
        /\ p < q
        /\ passes[p].shop = passes[q].shop
        /\ passes[p].state = "FAILED" /\ Len(passes[p].all_products) > 0
        /\ passes[q].state = "DONE"
        /\ passes[q].requests[1] = None

\* C9: a pass whose store_product failed on product k has stored exactly
\* products 1..k-1; the failing step removes nothing from the table, and the
\* pass takes no step after it (no page request, no upsert).
StoreFailed(pass) == pass.state = "FAILED" /\ pass.idx >= 1

C9_StoreFailureStopsPass ==
    /\ [](\A p \in Passes :
            StoreFailed(passes[p]) =>
              /\ passes[p].idx <= Len(passes[p].fetched)
              /\ passes[p].written =
                   SubSeq(RowsFor(passes[p].shop, passes[p].fetched),
                          1, passes[p].idx - 1))
    /\ [][\A p \in Passes :
            /\ (passes[p].state = "STORING" /\ passes'[p].state = "FAILED")
               => (products' = products
                   /\ passes'[p].written = passes[p].written
                   /\ passes'[p].requests = passes[p].requests)
            /\ StoreFailed(passes[p]) => passes'[p] = passes[p]]_vars

\* the upsert of the second of three products failed: the first is in the
\* table, the third is not
C9_Witness ==
    \E p \in Passes :
        /\ StoreFailed(passes[p])
        /\ passes[p].idx = 2
        /\ Len(passes[p].fetched) = 3
        /\ passes[p].written[1] \in products
        /\ RowsFor(passes[p].shop, passes[p].fetched)[3] \notin products

\* C14: the step in which a background pass fails records the error in the
\* pass and changes nothing else: no handler's response, no table, no other
\* pass.  The callback that scheduled it keeps its redirect, and no handler
\* waits on a background pass.
Fails(p) == passes[p].state # "FAILED" /\ passes'[p].state = "FAILED"

C14_BackgroundFailureContained ==
    /\ [](/\ \A i \in Callbacks : cbs[i].scheduled # 0 => Redirected(i)
          /\ \A r \in 1..Len(refreshes) :
               refreshes[r].pass # 0 => passes[refreshes[r].pass].kind = "ingest"
          /\ \A p \in Passes :
               (passes[p].kind = "background" /\ passes[p].state = "FAILED")
               => passes[p].error # NoError)
    /\ [][\A p \in Passes :
            (passes[p].kind = "background" /\ Fails(p)) =>
                /\ cbs' = cbs /\ refreshes' = refreshes /\ randoms' = randoms
                /\ shop_tokens' = shop_tokens /\ products' = products
                /\ \A q \in Passes \ {p} : passes'[q] = passes[q]]_vars

\* a background pass failed in its third upsert while the pass of another
\* shop was running; that pass went on and stored its catalog
C14_Witness ==
    \E p, q \in Passes :
        /\ passes[p].kind = "background" /\ passes[q].kind = "background"
        /\ passes[p].shop # passes[q].shop
        /\ StoreFailed(passes[p]) /\ passes[p].idx = 3
        /\ passes[q].state = "DONE" /\ Len(passes[q].written) = 3
        /\ \A i \in Callbacks : Redirected(i)

(***************************************************************************)
(* Properties of the fetcher against every catalog (SpecFetch).            *)
(***************************************************************************)
\* What a catalog is, read off the remote: the page after a page is the one
\* under the cursor of its rel="next" link (links are separated by ", ").
HasNextLink(response) == Contains(Get(response.headers, "Link", <<>>), RelNext)
NextCursor(response) ==
    LET links == split(response.headers.Link, ", ")
        k == CHOOSE k \in 1..Len(links) : Contains(links[k], RelNext)
    IN  Concat(split(split(links[k], PageInfoKey)[2], ">")[1])

Broken == "broken"
RECURSIVE Walk(_, _, _)
Walk(r, cursor, fuel) ==
    IF fuel = 0 \/ cursor \notin DOMAIN r THEN <<Broken>>
    ELSE IF r[cursor].status_code # HTTP_OK THEN <<Broken>>
    ELSE IF ~HasNextLink(r[cursor]) THEN <<cursor>>
    ELSE <<cursor>> \o Walk(r, NextCursor(r[cursor]), fuel - 1)

\* the cursors of the catalog's pages in order, and whether they are a
\* finite chain from the first page
ChainCursors(r) == Walk(r, None, Cardinality(DOMAIN r))
IsChain(r) == \A k \in 1..Len(ChainCursors(r)) : ChainCursors(r)[k] # Broken

RECURSIVE Flatten(_)
Flatten(seqs) == IF seqs = <<>> THEN <<>> ELSE Head(seqs) \o Flatten(Tail(seqs))
ChainProducts(r) ==
    Flatten([k \in 1..Len(ChainCursors(r)) |-> r[ChainCursors(r)[k]].json.products])

IsPrefix(s, t) == Len(s) <= Len(t) /\ s = SubSeq(t, 1, Len(s))

\* C4: against a catalog that is a finite chain of N pages, the k-th page
\* request of a pass carries the cursor of the k-th page, and a fetch that
\* has returned made exactly the N requests and returned the pages' products
\* in page order.
C4_ChainFetch ==
    IsChain(remote) =>
      \A p \in Passes :
        /\ IsPrefix(passes[p].requests, ChainCursors(remote))
        /\ passes[p].idx >= 1 =>
             /\ passes[p].requests = ChainCursors(remote)
             /\ passes[p].fetched = ChainProducts(remote)

\* C5: the pagination loop goes on only to a cursor it has not requested
\* yet, so no cursor is requested twice: a next link back to a seen cursor
\* ends the fetch with an error.
SeenCursors(pass) == {pass.requests[k] : k \in 1..Len(pass.requests)}

C5_StopsOnSeenCursor ==
    \A p \in Passes :
        /\ (passes[p].state = "FETCHING" /\ ~Awaiting(passes[p]))
           => RequestCursor(passes[p].page_info) \notin SeenCursors(passes[p])
        /\ \A i, j \in 1..Len(passes[p].requests) :
             i < j => passes[p].requests[i] # passes[p].requests[j]

(***************************************************************************)
(* Properties of a whole pass against the catalog it read (SpecSync).      *)
(***************************************************************************)
Key(row) == <<row.shop, row.product_id>>
\* the last of `rows` under the key of `row`
LastUnderKey(rows, row) ==
    rows[CHOOSE k \in 1..Len(rows) :
             /\ SameKey(rows[k], row)
             /\ \A j \in (k + 1)..Len(rows) : ~SameKey(rows[j], row)]
Alone(p) ==
    \A q \in Passes \ {p} :
        passes[q].shop = passes[p].shop => passes[q].written = <<>>

\* C17: a pass upserts the products in the order the remote returned them,
\* page after page; when it is done (and no other pass wrote for its shop)
\* the record under each (shop, product_id) it met is the one of the last
\* page that carried the id.
C17_LastPageWins ==
    IsChain(remote) =>
      LET catalog == ChainProducts(remote)
      IN  \A p \in Passes :
            LET rows == RowsFor(passes[p].shop, catalog)
            IN  /\ passes[p].idx >= 1 =>
                     /\ passes[p].fetched = catalog
                     /\ IsPrefix(passes[p].written, rows)
                /\ (passes[p].state = "DONE" /\ Alone(p)) =>
                     \A k \in 1..Len(rows) :
                        {r \in products : SameKey(r, rows[k])}
                          = {LastUnderKey(rows, rows[k])}

\* a finished pass met product id 1 on the first and on the second page
\* with different columns; the table holds the second page's record
C17_Witness ==
    \E p \in Passes :
        /\ passes[p].state = "DONE" /\ Alone(p)
        /\ Len(passes[p].requests) = 2
        /\ LET first == RowsFor(passes[p].shop, remote[None].json.products)[1]
               second == RowsFor(passes[p].shop, remote["c1"].json.products)[1]
           IN  /\ SameKey(first, second)
               /\ first # second
               /\ second \in products
               /\ first \notin products

\* C18: the count a finished ingest_products returns, and the count the
\* refresh handler reports, is the number of distinct (shop, product_id)
\* records the pass wrote.
C18_CountIsDistinctStored ==
    /\ \A p \in Passes :
         (passes[p].kind = "ingest" /\ passes[p].state = "DONE")
         => passes[p].count
              = Cardinality({Key(passes[p].written[k]) :
                               k \in 1..Len(passes[p].written)})
    /\ \A r \in 1..Len(refreshes) :
         (refreshes[r].pc = "done" /\ refreshes[r].pass # 0
            /\ passes[refreshes[r].pass].state = "DONE")
         => refreshes[r].response.product_count
              = Cardinality({Key(passes[refreshes[r].pass].written[k]) :
                               k \in 1..Len(passes[refreshes[r].pass].written)})

(***************************************************************************)
(* Properties of /random-products (SpecRead).                              *)
(***************************************************************************)
Randoms == 1..Len(randoms)
\* the handler found no product of the shop and a stored token, and entered
\* ingest_products
Refreshing(r) == randoms[r].pass # 0

\* C15: a /random-products request that found no product of its shop and a
\* stored token never answers an error, and answers the empty
\* recommendation list when the shop still has no product.
C15_EmptyListNotError ==
    \A r \in Randoms :
        (Refreshing(r) /\ randoms[r].pc = "done") =>
            /\ "error" \notin DOMAIN randoms[r].response
            /\ get_shop_products(products, randoms[r].shop) = {}
               => randoms[r].response.recommendations = <<>>

\* C16: no pass is run for a /random-products request: the handler sends no
\* page request and writes no product.
C16_ReadsAreLocal ==
    \A r \in Randoms :
        Refreshing(r) => /\ passes[randoms[r].pass].requests = <<>>
                         /\ passes[randoms[r].pass].written = <<>>

(***************************************************************************)
(* Properties of the handlers that start a pass (SpecRead, SpecSync).      *)
(***************************************************************************)
HasCredential(shop) == Truthy(get_access_token_for_shop(shop_tokens, shop))
NotAuthorized == [status_code |-> 200, error |-> "Shop not authorized"]

\* C21: every pass belongs to a shop with a stored credential (credentials
\* are never deleted, so it had one when the pass was started), and a
\* refresh_products or random_products request for a shop without one has
\* started no pass and answered 'Shop not authorized' (the server's 500 when
\* the credential store could not be read).
C21_NoFetchWithoutCredential ==
    /\ \A p \in Passes : HasCredential(passes[p].shop)
    /\ \A r \in 1..Len(refreshes) :
         (Truthy(refreshes[r].shop) /\ ~HasCredential(refreshes[r].shop))
         => /\ refreshes[r].pass = 0
            /\ refreshes[r].response \in {NotAuthorized, ServerError}
    /\ \A r \in Randoms :
         (Truthy(randoms[r].shop) /\ ~HasCredential(randoms[r].shop))
         => /\ randoms[r].pass = 0
            /\ randoms[r].response \in {NotAuthorized, ServerError}

\* The part of C21 that is about requests and writes: every pass, hence
\* every page request and every product row, is of a shop with a stored
\* credential, and a handler invoked for a shop without one started no pass
\* and answered an error (or the server's 500 when the lookup raised).
Refused(response) == "error" \in DOMAIN response \/ response = ServerError

FetchNeedsCredential ==
    /\ \A p \in Passes : HasCredential(passes[p].shop)
    /\ \A row \in products : HasCredential(row.shop)
    /\ \A r \in 1..Len(refreshes) :
         (Truthy(refreshes[r].shop) /\ ~HasCredential(refreshes[r].shop))
         => (refreshes[r].pass = 0 /\ Refused(refreshes[r].response))
    /\ \A r \in Randoms :
         (Truthy(randoms[r].shop) /\ ~HasCredential(randoms[r].shop))
         => (randoms[r].pass = 0 /\ Refused(randoms[r].response))

====
